---- MODULE Spec2Model ----
(***************************************************************************)
(* Model of the conversation-memory hook of ch05_ai_agent                  *)
(* (memory_hook_provider.py): MemoryHook.__init__, on_agent_initialized,   *)
(* _add_context_user_query and on_message_added, run against a MemoryClient *)
(* whose calls either raise or return, and an agent runtime that appends    *)
(* messages and fires the two lifecycle events.                             *)
(* The entrypoints that build the hook (invoke of the memory, observability *)
(* and identity agents) and the namespaces of setup_memory.py are modelled  *)
(* as far as they decide the hook's actor id, session id and namespaces.    *)
(*                                                                         *)
(* Strings are sequences of tokens, so that "+=" is sequence concatenation  *)
(* and the exact text a handler builds can be compared.  A token is a pair  *)
(* <<kind, n>>.                                                             *)
(***************************************************************************)
EXTENDS Integers, Sequences, FiniteSets, TLC

(* ------------------------------ bounds --------------------------------- *)
\* messages the runtime appends in one behaviour
MaxMsgs == 2
\* records the store holds per namespace (a retrieval returns at most top_k)
MaxRecs == 2

(* ------------------------- program constants --------------------------- *)
top_k == 3
k == 5

(* ------------------------------ strings -------------------------------- *)
NL == <<"nl", 0>>
\* "\n\n"
NLNL == <<NL, NL>>
\* init_content="これらはユーザーの嗜好です:"
PREF_HEADER == <<"hdr", 1>>
\* init_content="これらはユーザーの問題です:"
ISSUE_HEADER == <<"hdr", 2>>
\* the text appended to the system prompt at initialization
GUIDANCE == <<"guide", 0>>
\* the system prompt the agent is constructed with
SYSTEM_PROMPT == <<"sys", 0>>
\* the text of a turn / of a stored message / of a memory record
TurnText(n) == <<"txt", n>>
RecText(cat, n) == <<"rec", (IF cat = "preferences" THEN 0 ELSE 10) + n>>

Min(a, b) == IF a < b THEN a ELSE b
Last(s) == s[Len(s)]

(* --------------------------- message shapes ---------------------------- *)
\* one content entry {text?: string, ...}: with a "text" key or without
\* (toolUse / toolResult entries)
TextEntry(t) == [hasText |-> TRUE, text |-> <<t>>]
OtherEntry == [hasText |-> FALSE, text |-> <<>>]

Message(role, content) == [role |-> role, content |-> content]

\* the messages the runtime can append
NewMessages ==
  { Message("user", <<TextEntry(TurnText(1))>>),
    Message("user", <<TextEntry(TurnText(2)), OtherEntry>>),
    Message("user", <<OtherEntry>>),
    Message("user", <<OtherEntry, TextEntry(TurnText(3))>>),
    Message("user", <<>>),
    Message("assistant", <<TextEntry(TurnText(4))>>),
    Message("assistant", <<>>),
    Message("system", <<TextEntry(TurnText(1))>>) }

(* --------------------------- MemoryClient ------------------------------ *)
\* the records a namespace holds, ranked; a retrieval returns the first
\* top_k of them
Ranked(cat, n) == [i \in 1..n |-> [text |-> <<RecText(cat, i)>>]]
Retrieved(st, cat) == Ranked(cat, Min(top_k, st[cat]))

Stores == [preferences : 0..MaxRecs, issues : 0..MaxRecs]

\* which of the client's calls raise during one on_message_added invocation
Faults == [preferences : BOOLEAN, issues : BOOLEAN, save : BOOLEAN]

\* a stored message as get_last_k_turns returns it; wf = FALSE: the message
\* lacks ["content"]["text"]
StoredMsg(r, n) == [role |-> r, wf |-> TRUE, text |-> <<TurnText(n)>>]
Malformed == [role |-> "USER", wf |-> FALSE, text |-> <<>>]

\* what get_last_k_turns does: raise, or return a list of turns, each a list
\* of messages
TurnLists ==
  { <<>>,
    << <<StoredMsg("USER", 5), StoredMsg("ASSISTANT", 6)>>,
       <<StoredMsg("assistant", 7)>>, <<StoredMsg("TOOL", 8)>> >>,
    << <<StoredMsg("USER", 5)>>, <<Malformed>> >> }
TurnOutcomes ==
  {[ok |-> FALSE, turns |-> <<>>]} \cup {[ok |-> TRUE, turns |-> t] : t \in TurnLists}

(* ---------------------------- the hook --------------------------------- *)
\* the namespace_prefix argument: None or a string
NoneArg == [isNone |-> TRUE, s |-> <<>>]
StrArg(s) == [isNone |-> FALSE, s |-> s]

\* MemoryHook.__init__ storing actor_id and session_id in each other's field
MemoryHook_swapped(memory_id, actor_id, session_id, namespace_prefix) ==
  [memory_id |-> memory_id,
   actor_id |-> session_id,
   session_id |-> actor_id,
   namespace_prefix |-> IF namespace_prefix.isNone \/ namespace_prefix.s = <<>>
                        THEN <<>> ELSE namespace_prefix.s]

\* MemoryHook.__init__
MemoryHook(memory_id, actor_id, session_id, namespace_prefix) ==
  [memory_id |-> memory_id,
   actor_id |-> actor_id,
   session_id |-> session_id,
   namespace_prefix |-> IF namespace_prefix.isNone \/ namespace_prefix.s = <<>>
                        THEN <<>> ELSE namespace_prefix.s]

\* Namespace leaving the prefix out
Namespace_noPrefix(h, cat) == <<"/", cat, "/", h.actor_id>>

\* f"{self.namespace_prefix}/preferences/{self.actor_id}"
Namespace(h, cat) == h.namespace_prefix \o <<"/", cat, "/", h.actor_id>>

\* a call on the MemoryClient as the client sees it, and how it ended
NoArgs == [memory_id |-> "", actor_id |-> "", session_id |-> "",
           namespace |-> <<>>, query |-> <<>>, n |-> 0, messages |-> <<>>]
RetrieveCall(h, cat, query, ok, recs) ==
  [op |-> "retrieve_memories", cat |-> cat, raised |-> ~ok,
   result |-> IF ok THEN recs ELSE <<>>,
   args |-> [NoArgs EXCEPT !.memory_id = h.memory_id,
                            !.namespace = Namespace(h, cat),
                            !.query = query, !.n = top_k]]
\* SaveCall with actor_id and session_id passed in each other's place
SaveCall_swapped(h, text, role, ok) ==
  [op |-> "save_conversation", cat |-> "", raised |-> ~ok, result |-> <<>>,
   args |-> [NoArgs EXCEPT !.memory_id = h.memory_id, !.actor_id = h.session_id,
                            !.session_id = h.actor_id,
                            !.messages = << <<text, role>> >>]]
SaveCall(h, text, role, ok) ==
  [op |-> "save_conversation", cat |-> "", raised |-> ~ok, result |-> <<>>,
   args |-> [NoArgs EXCEPT !.memory_id = h.memory_id, !.actor_id = h.actor_id,
                            !.session_id = h.session_id,
                            !.messages = << <<text, role>> >>]]
\* GetTurnsCall asking for top_k turns instead of k
GetTurnsCall_topK(h, out) ==
  [op |-> "get_last_k_turns", cat |-> "", raised |-> ~out.ok,
   result |-> out.turns,
   args |-> [NoArgs EXCEPT !.memory_id = h.memory_id, !.actor_id = h.actor_id,
                            !.session_id = h.session_id, !.n = top_k]]
\* GetTurnsCall with actor_id and session_id passed in each other's place
GetTurnsCall_swapped(h, out) ==
  [op |-> "get_last_k_turns", cat |-> "", raised |-> ~out.ok,
   result |-> out.turns,
   args |-> [NoArgs EXCEPT !.memory_id = h.memory_id, !.actor_id = h.session_id,
                            !.session_id = h.actor_id, !.n = k]]
GetTurnsCall(h, out) ==
  [op |-> "get_last_k_turns", cat |-> "", raised |-> ~out.ok,
   result |-> out.turns,
   args |-> [NoArgs EXCEPT !.memory_id = h.memory_id, !.actor_id = h.actor_id,
                            !.session_id = h.session_id, !.n = k]]

VARIABLES
  hook,           \* the MemoryHook instance (its four configuration fields)
  store,          \* how many records the store holds in each namespace
  messages,       \* event.agent.messages
  system_prompt,  \* event.agent.system_prompt
  pc,             \* where the runtime is in the conversation
  handler,        \* the handler that ran last
  entry,          \* agent state when the last handler was entered
  calls,          \* the MemoryClient calls the last handler made, in order
  outcome,        \* "returned" or "raised": how the last handler ended
  saved,          \* the store: every save_conversation that succeeded
  added,          \* messages the runtime has appended so far
  ctor,           \* the arguments MemoryHook was constructed with
  appended,       \* the messages the runtime appended, as it appended them
  request,        \* the request the entrypoint built this agent for
  clock,          \* time.time(), in ticks
  peer            \* the agent of the other request being served, if any

vars == <<hook, store, messages, system_prompt, pc, handler, entry, calls,
          outcome, saved, added, ctor, appended, request, clock, peer>>

(* ----------------------- on_agent_initialized -------------------------- *)
\* role = "assistant" if message["role"] == "ASSISTANT" else "user"
MapRole(r) == IF r = "ASSISTANT" THEN "assistant" ELSE "user"

\* {"role": role, "content": [{"text": content}]}
ContextMessage(m) ==
  [role |-> MapRole(m.role), content |-> <<[hasText |-> TRUE, text |-> m.text]>>]

\* the two nested for loops: one context message per stored message
RECURSIVE FormatTurn(_)
FormatTurn(turn) ==
  IF turn = <<>> THEN <<>>
  ELSE <<ContextMessage(Head(turn))>> \o FormatTurn(Tail(turn))

RECURSIVE FormatTurns(_)
FormatTurns(turns) ==
  IF turns = <<>> THEN <<>>
  ELSE FormatTurn(Head(turns)) \o FormatTurns(Tail(turns))

\* message["content"]["text"] raises KeyError on a message without it
WellFormed(turns) ==
  \A i \in 1..Len(turns) : \A j \in 1..Len(turns[i]) : turns[i][j].wf

\* InitExcept re-raising instead of printing
InitExcept_raises(msgs, prompt) ==
  [messages |-> msgs, system_prompt |-> prompt, outcome |-> "raised"]

\* except Exception as e: print(...)   -- the handler returns normally
InitExcept(msgs, prompt) ==
  [messages |-> msgs, system_prompt |-> prompt, outcome |-> "returned"]

\* on_agent_initialized extending the history instead of replacing it
on_agent_initialized_merges(h, msgs, prompt, out) ==
  LET r == IF ~out.ok THEN InitExcept(msgs, prompt)
           ELSE IF out.turns = <<>>
           THEN [messages |-> msgs, system_prompt |-> prompt, outcome |-> "returned"]
           ELSE IF ~WellFormed(out.turns) THEN InitExcept(msgs, prompt)
           ELSE [messages |-> msgs \o FormatTurns(out.turns),
                 system_prompt |-> prompt \o <<GUIDANCE>>,
                 outcome |-> "returned"]
  IN [self |-> h, messages |-> r.messages,
      system_prompt |-> r.system_prompt, outcome |-> r.outcome]

\* on_agent_initialized appending the guidance before it formats the turns
on_agent_initialized_promptFirst(h, msgs, prompt, out) ==
  LET r == IF ~out.ok THEN InitExcept(msgs, prompt)
           ELSE IF out.turns = <<>>
           THEN [messages |-> msgs, system_prompt |-> prompt, outcome |-> "returned"]
           ELSE IF ~WellFormed(out.turns) THEN InitExcept(msgs, prompt \o <<GUIDANCE>>)
           ELSE [messages |-> FormatTurns(out.turns),
                 system_prompt |-> prompt \o <<GUIDANCE>>,
                 outcome |-> "returned"]
  IN [self |-> h, messages |-> r.messages,
      system_prompt |-> r.system_prompt, outcome |-> r.outcome]

\* the whole handler: the agent state and outcome it leaves
on_agent_initialized(h, msgs, prompt, out) ==
  LET r == IF ~out.ok THEN InitExcept(msgs, prompt)
           ELSE IF out.turns = <<>>
           THEN [messages |-> msgs, system_prompt |-> prompt, outcome |-> "returned"]
           ELSE IF ~WellFormed(out.turns) THEN InitExcept(msgs, prompt)
           ELSE [messages |-> FormatTurns(out.turns),
                 system_prompt |-> prompt \o <<GUIDANCE>>,
                 outcome |-> "returned"]
  IN [self |-> h, messages |-> r.messages,
      system_prompt |-> r.system_prompt, outcome |-> r.outcome]

(* --------------------- _add_context_user_query ------------------------- *)
\* AddLoop writing the header block even when the loop body never ran
RECURSIVE AddLoop_emptyHeader(_, _, _, _, _)
AddLoop_emptyHeader(recs, i, content, text, init_content) ==
  IF i > Len(recs)
  THEN IF recs = <<>> THEN text \o NLNL \o <<init_content>> \o NLNL ELSE text
  ELSE LET c0 == IF content = <<>>
                 THEN NLNL \o <<init_content>> \o NLNL ELSE content
           c1 == c0 \o recs[i].text
           t1 == IF c1 # <<>> THEN text \o c1 \o NLNL ELSE text
       IN AddLoop_emptyHeader(recs, i + 1, c1, t1, init_content)

\* AddLoop starting the block without the leading "\n\n"
RECURSIVE AddLoop_noLeadingBlank(_, _, _, _, _)
AddLoop_noLeadingBlank(recs, i, content, text, init_content) ==
  IF i > Len(recs) THEN text
  ELSE LET c0 == IF content = <<>>
                 THEN <<init_content>> \o NLNL ELSE content
           c1 == c0 \o recs[i].text
           t1 == IF c1 # <<>> THEN text \o c1 \o NLNL ELSE text
       IN AddLoop_noLeadingBlank(recs, i + 1, c1, t1, init_content)

\* the for loop over memories; content = <<>> stands for None (both falsy),
\* text is event.agent.messages[-1]["content"][0]["text"]
RECURSIVE AddLoop(_, _, _, _, _)
AddLoop(recs, i, content, text, init_content) ==
  IF i > Len(recs) THEN text
  ELSE LET c0 == IF content = <<>>
                 THEN NLNL \o <<init_content>> \o NLNL ELSE content
           c1 == c0 \o recs[i].text
           t1 == IF c1 # <<>> THEN text \o c1 \o NLNL ELSE text
       IN AddLoop(recs, i + 1, c1, t1, init_content)

\* WithText writing to messages[0] instead of messages[-1]
WithText_first(live, text) ==
  IF live[1].content # <<>> /\ live[1].content[1].hasText
  THEN [live EXCEPT ![1].content[1].text = text]
  ELSE live

\* WithText replacing the content of the last message by one text entry
WithText_resetsContent(live, text) ==
  [live EXCEPT ![Len(live)].content = <<[hasText |-> TRUE, text |-> text]>>]

\* event.agent.messages with the text of the last message's first entry set
WithText(live, text) ==
  [live EXCEPT ![Len(live)].content[1].text = text]

\* one call: the retrieval (which raises when ok is FALSE) and the loop
add_context_user_query(h, cat, query, init_content, live, ok, memories) ==
  [call |-> RetrieveCall(h, cat, query, ok, memories),
   raised |-> ~ok,
   live |-> IF ok
            THEN WithText(live, AddLoop(memories, 1, <<>>,
                                        Last(live).content[1].text, init_content))
            ELSE live]

(* -------------------------- on_message_added --------------------------- *)
\* MessageExcept swallowing the exception (except: pass)
MessageExcept_swallows == "returned"

\* except Exception as e: raise RuntimeError(...)
MessageExcept == "raised"

\* SavedPair read from messages[0] instead of messages[-1]
SavedPair_first(copy, live) ==
  <<IF copy[1].content # <<>> THEN copy[1].content[1].text ELSE <<>>,
    copy[1].role>>

\* SavedPair read from the live message instead of the copy
SavedPair_live(copy, live) ==
  <<Last(live).content[1].text, Last(live).role>>

\* (messages[-1]["content"][0]["text"], messages[-1]["role"]) of the copy
\* taken at entry
SavedPair(copy, live) ==
  <<Last(copy).content[1].text, Last(copy).role>>

\* Query read from the live message instead of the copy
Query_live(copy, live) == Last(live).content[1].text

\* query=messages[-1]["content"][0]["text"], messages being the copy
Query(copy, live) == Last(copy).content[1].text

\* Augments holding for every role
Augments_any(role) == TRUE

\* if messages[-1]["role"] == "user": only user turns get memory context
Augments(role) == role = "user"

\* the handler from the retrievals on: the last message of the copy has a
\* role of user or assistant and a first content entry with text
AugmentAndSave(h, live, st, f) ==
  LET copy == live
      role == Last(copy).role
      a1 == add_context_user_query(h, "preferences", Query(copy, live),
                                   PREF_HEADER, live,
                                   ~f.preferences, Retrieved(st, "preferences"))
      a2 == add_context_user_query(h, "issues", Query(copy, a1.live),
                                   ISSUE_HEADER, a1.live,
                                   ~f.issues, Retrieved(st, "issues"))
      l == IF Augments(role) THEN a2.live ELSE live
      c == IF Augments(role) THEN <<a1.call, a2.call>> ELSE <<>>
      pair == SavedPair(copy, l)
      save == SaveCall(h, pair[1], pair[2], ~f.save)
  IN IF Augments(role) /\ a1.raised
     THEN [live |-> a1.live, calls |-> <<a1.call>>, done |-> <<>>,
           outcome |-> MessageExcept]
     ELSE IF Augments(role) /\ a2.raised
     THEN [live |-> a2.live, calls |-> <<a1.call, a2.call>>, done |-> <<>>,
           outcome |-> MessageExcept]
     ELSE IF f.save
     THEN [live |-> l, calls |-> c \o <<save>>, done |-> <<>>,
           outcome |-> MessageExcept]
     ELSE [live |-> l, calls |-> c \o <<save>>, done |-> <<save>>,
           outcome |-> "returned"]

\* on_message_added keeping the role of the last turn on the hook
on_message_added_keepsRole(h, live, st, f) ==
  LET copy == live
      quiet == [live |-> live, calls |-> <<>>, done |-> <<>>,
                outcome |-> "returned"]
      r == IF copy = <<>>
           THEN [quiet EXCEPT !.outcome = MessageExcept]
           ELSE IF Last(copy).role \notin {"user", "assistant"} THEN quiet
           ELSE IF Last(copy).content = <<>>
           THEN [quiet EXCEPT !.outcome = MessageExcept]
           ELSE IF ~Last(copy).content[1].hasText THEN quiet
           ELSE AugmentAndSave(h, live, st, f)
  IN [self |-> [memory_id |-> h.memory_id, actor_id |-> h.actor_id,
                session_id |-> h.session_id,
                namespace_prefix |-> h.namespace_prefix,
                last_role |-> IF copy = <<>> THEN "" ELSE Last(copy).role],
      live |-> r.live, calls |-> r.calls, done |-> r.done,
      outcome |-> r.outcome]

\* on_message_added looking at content[0] before it looks at the role
on_message_added_contentFirst(h, live, st, f) ==
  LET copy == live
      quiet == [live |-> live, calls |-> <<>>, done |-> <<>>,
                outcome |-> "returned"]
      r == IF copy = <<>>
           THEN [quiet EXCEPT !.outcome = MessageExcept]
           ELSE IF Last(copy).content = <<>>
           THEN [quiet EXCEPT !.outcome = MessageExcept]
           ELSE IF ~Last(copy).content[1].hasText THEN quiet
           ELSE IF Last(copy).role \notin {"user", "assistant"} THEN quiet
           ELSE AugmentAndSave(h, live, st, f)
  IN [self |-> h, live |-> r.live, calls |-> r.calls, done |-> r.done,
      outcome |-> r.outcome]

\* the whole handler: the hook, the live messages, the client calls, the
\* saves done and the outcome it leaves
on_message_added(h, live, st, f) ==
  LET copy == live
      quiet == [live |-> live, calls |-> <<>>, done |-> <<>>,
                outcome |-> "returned"]
      r == IF copy = <<>>
           THEN [quiet EXCEPT !.outcome = MessageExcept]
           ELSE IF Last(copy).role \notin {"user", "assistant"} THEN quiet
           ELSE IF Last(copy).content = <<>>
           THEN [quiet EXCEPT !.outcome = MessageExcept]
           ELSE IF ~Last(copy).content[1].hasText THEN quiet
           ELSE AugmentAndSave(h, live, st, f)
  IN [self |-> h, live |-> r.live, calls |-> r.calls, done |-> r.done,
      outcome |-> r.outcome]

(* ------------------------------ actions -------------------------------- *)
PriorMessage == Message("user", <<TextEntry(TurnText(9))>>)

\* the agent as the entrypoints build it: MemoryHook(client, memory_id,
\* actor_id, session_id), a system prompt, and the messages it starts with
CtorArgs(memory_id, actor_id, session_id, namespace_prefix) ==
  [memory_id |-> memory_id, actor_id |-> actor_id, session_id |-> session_id,
   namespace_prefix |-> namespace_prefix]

\* the hook built from its constructor arguments
Construct(c) ==
  MemoryHook(c.memory_id, c.actor_id, c.session_id, c.namespace_prefix)

\* a request that names no customer, and no second request being served
NoRequest == [kind |-> "none", email |-> "", user |-> "", session_id |-> ""]
NoPeer == [pc |-> "none"]

\* everything but the hook, the store and the messages held at the start
InitRest ==
  /\ system_prompt = <<SYSTEM_PROMPT>>
  /\ pc = "constructed"
  /\ handler = "none"
  /\ entry = [messages |-> messages, system_prompt |-> system_prompt]
  /\ calls = <<>>
  /\ outcome = "none"
  /\ saved = <<>>
  /\ added = 0
  /\ appended = <<>>
  /\ request = NoRequest
  /\ clock = 0
  /\ peer = NoPeer

Init ==
  /\ ctor = CtorArgs("mem", "actor", "session", NoneArg)
  /\ hook = Construct(ctor)
  /\ store \in Stores
  /\ messages \in {<<>>, <<PriorMessage>>}
  /\ InitRest

\* the runtime fires AgentInitializedEvent, once, before any message
AgentInitialized(out) ==
  /\ pc = "constructed"
  /\ LET r == on_agent_initialized(hook, messages, system_prompt, out)
     IN /\ messages' = r.messages
        /\ system_prompt' = r.system_prompt
        /\ outcome' = r.outcome
        /\ hook' = r.self
  /\ pc' = "idle"
  /\ handler' = "on_agent_initialized"
  /\ entry' = [messages |-> messages, system_prompt |-> system_prompt]
  /\ calls' = <<GetTurnsCall(hook, out)>>
  /\ UNCHANGED <<store, saved, added, ctor, appended, request, clock, peer>>

\* the runtime appends a message to the conversation
AppendMessage(m) ==
  /\ pc \in {"idle", "failed"}
  /\ added < MaxMsgs
  /\ messages' = Append(messages, m)
  /\ added' = added + 1
  /\ pc' = "added"
  /\ handler' = "none"
  /\ entry' = [messages |-> messages', system_prompt |-> system_prompt]
  /\ calls' = <<>>
  /\ outcome' = "none"
  /\ appended' = Append(appended, m)
  /\ UNCHANGED <<hook, store, system_prompt, saved, ctor, request, clock, peer>>

\* the runtime fires MessageAddedEvent for the message it just appended;
\* the client fails as f during the handler
MessageAdded(f) ==
  /\ pc = "added"
  /\ LET r == on_message_added(hook, messages, store, f)
     IN /\ messages' = r.live
        /\ hook' = r.self
        /\ calls' = r.calls
        /\ outcome' = r.outcome
        /\ saved' = saved \o r.done
        /\ pc' = IF r.outcome = "raised" THEN "failed" ELSE "idle"
  /\ handler' = "on_message_added"
  /\ entry' = [messages |-> messages, system_prompt |-> system_prompt]
  /\ UNCHANGED <<store, system_prompt, added, ctor, appended, request, clock, peer>>

Next ==
  \/ \E out \in TurnOutcomes : AgentInitialized(out)
  \/ \E m \in NewMessages : AppendMessage(m)
  \/ \E f \in Faults : MessageAdded(f)

Spec == Init /\ [][Next]_vars

\* hooks built with each kind of namespace_prefix argument and two actors
PrefixArgs == {NoneArg, StrArg(<<>>), StrArg(<<"support">>)}
Actors == {"actor", "actor2"}

InitNs ==
  /\ \E p \in PrefixArgs, a \in Actors : ctor = CtorArgs("mem", a, "session", p)
  /\ hook = Construct(ctor)
  /\ store = [preferences |-> 1, issues |-> 1]
  /\ messages = <<>>
  /\ InitRest

SpecNs == InitNs /\ [][Next]_vars

\* a store that never fails: no call of the client raises
NoFaults == [preferences |-> FALSE, issues |-> FALSE, save |-> FALSE]

NextHealthy ==
  \/ \E out \in {o \in TurnOutcomes : o.ok} : AgentInitialized(out)
  \/ \E m \in NewMessages : AppendMessage(m)
  \/ MessageAdded(NoFaults)

SpecHealthy == Init /\ [][NextHealthy]_vars

(* ---------------------------- entrypoints ------------------------------ *)
\* the clock advances in ticks; int(time.time()) counts whole seconds
TicksPerSecond == 2
\* ticks the clock makes in one behaviour
MaxTicks == 2
\* messages the runtime appends per agent while two requests are served
MaxEach == 1

\* int(time.time())
IntTime(t) == t \div TicksPerSecond

\* f"session_{int(time.time())}"
SessionNames == <<"session_0", "session_1", "session_2", "session_3">>
SessionId(t) == SessionNames[IntTime(t) + 1]

\* f"customer_{hashlib.md5(email.encode()).hexdigest()[:8]}"
Emails == {"a@example.com", "b@example.com"}
CustomerId(email) ==
  IF email = "a@example.com" THEN "customer_d656370d" ELSE "customer_0a3b8c1f"

\* the end users the OAuth authorizer lets through
Users == {"alice", "bob"}

\* a request to the memory agent (or the observability agent) carries an
\* email address in its prompt; a request to the identity agent comes from an
\* authenticated user, with or without a session id in the runtime context
\* ("" standing for a missing context or session id, both falsy)
MemoryRequests ==
  {[kind |-> "memory", email |-> e, user |-> "", session_id |-> ""] : e \in Emails}
IdentityRequests ==
  {[kind |-> "identity", email |-> "", user |-> u, session_id |-> c] :
     u \in Users, c \in {"", "ctx_1"}}
Requests == MemoryRequests \cup IdentityRequests

\* the user block setup_agent_with_identity_and_memory adds to the prompt
IDENTITY_INFO == <<"idinfo", 0>>

\* invoke of customer_support_agent_with_memory.py and of
\* customer_support_agent_with_observability.py: the MemoryHook arguments
invoke_memory(req, t) ==
  CtorArgs("mem", CustomerId(req.email), SessionId(t), NoneArg)

\* invoke of customer_support_agent_with_identity.py: user_info is the same
\* literal for every request
invoke_identity(req, t) ==
  CtorArgs("mem", "customer_oauth_verified",
           IF req.session_id = "" THEN SessionId(t) ELSE req.session_id,
           StrArg(<<"support/user">>))

invoke(req, t) ==
  IF req.kind = "identity" THEN invoke_identity(req, t) ELSE invoke_memory(req, t)

\* the system prompt the entrypoint builds the agent with
PromptOf(req) ==
  IF req.kind = "identity" THEN <<SYSTEM_PROMPT, IDENTITY_INFO>>
  ELSE <<SYSTEM_PROMPT>>

\* the store's short-term side: the turns saved under (memory, actor,
\* session), oldest first, each saved pair one turn, and the last n of them
TurnsOf(sv, memory_id, actor_id, session_id) ==
  LET Mine(c) == /\ c.args.memory_id = memory_id
                 /\ c.args.actor_id = actor_id
                 /\ c.args.session_id = session_id
      mine == SelectSeq(sv, Mine)
  IN [i \in 1..Len(mine) |->
        << [role |-> mine[i].args.messages[1][2], wf |-> TRUE,
            text |-> mine[i].args.messages[1][1]] >>]

LastK(s, n) == IF Len(s) <= n THEN s ELSE SubSeq(s, Len(s) - n + 1, Len(s))

\* what the store answers to the get_last_k_turns call with arguments a
get_last_k_turns(sv, a) ==
  [ok |-> TRUE, turns |-> LastK(TurnsOf(sv, a.memory_id, a.actor_id, a.session_id), a.n)]

\* the agent being served, as it is kept while the other one runs
Parked ==
  [pc |-> pc, hook |-> hook, ctor |-> ctor, messages |-> messages,
   system_prompt |-> system_prompt, added |-> added, appended |-> appended,
   request |-> request]

\* time passes
Tick ==
  /\ clock < MaxTicks
  /\ clock' = clock + 1
  /\ UNCHANGED <<hook, store, messages, system_prompt, pc, handler, entry,
                 calls, outcome, saved, added, ctor, appended, request, peer>>

\* a second request arrives while the first is served: the entrypoint
\* builds its own MemoryHook and Agent
Invoke(req) ==
  /\ peer = NoPeer
  /\ peer' = Parked
  /\ request' = req
  /\ ctor' = invoke(req, clock)
  /\ hook' = Construct(invoke(req, clock))
  /\ messages' = <<>>
  /\ system_prompt' = PromptOf(req)
  /\ pc' = "constructed"
  /\ added' = 0
  /\ appended' = <<>>
  /\ handler' = "none"
  /\ calls' = <<>>
  /\ outcome' = "none"
  /\ entry' = [messages |-> <<>>, system_prompt |-> PromptOf(req)]
  /\ UNCHANGED <<store, saved, clock>>

\* the runtime goes on with the other request
Switch ==
  /\ peer # NoPeer
  /\ peer' = Parked
  /\ request' = peer.request
  /\ ctor' = peer.ctor
  /\ hook' = peer.hook
  /\ messages' = peer.messages
  /\ system_prompt' = peer.system_prompt
  /\ pc' = peer.pc
  /\ added' = peer.added
  /\ appended' = peer.appended
  /\ handler' = "none"
  /\ calls' = <<>>
  /\ outcome' = "none"
  /\ entry' = [messages |-> peer.messages, system_prompt |-> peer.system_prompt]
  /\ UNCHANGED <<store, saved, clock>>

\* AgentInitializedEvent with the store answering from what was saved
AgentInitializedFromStore ==
  AgentInitialized(
    get_last_k_turns(saved, GetTurnsCall(hook, [ok |-> TRUE, turns |-> <<>>]).args))

TwoMessages ==
  { Message("user", <<TextEntry(TurnText(1))>>),
    Message("assistant", <<TextEntry(TurnText(4))>>) }
TwoFaults == {NoFaults, [NoFaults EXCEPT !.save = TRUE]}

InitTwo ==
  /\ request \in Requests
  /\ ctor = invoke(request, 0)
  /\ hook = Construct(ctor)
  /\ store = [preferences |-> 1, issues |-> 0]
  /\ messages = <<>>
  /\ system_prompt = PromptOf(request)
  /\ pc = "constructed"
  /\ handler = "none"
  /\ entry = [messages |-> messages, system_prompt |-> system_prompt]
  /\ calls = <<>>
  /\ outcome = "none"
  /\ saved = <<>>
  /\ added = 0
  /\ appended = <<>>
  /\ clock = 0
  /\ peer = NoPeer

NextTwo ==
  \/ Tick
  \/ \E req \in Requests : Invoke(req)
  \/ Switch
  \/ AgentInitializedFromStore
  \/ \E m \in TwoMessages : added < MaxEach /\ AppendMessage(m)
  \/ \E f \in TwoFaults : MessageAdded(f)

SpecTwo == InitTwo /\ [][NextTwo]_vars

(* ----------------- a retrieval that never returns ---------------------- *)
\* retrieve_memories is called with memory_id, namespace, query and top_k and
\* no timeout (lines 74-78), inside no timer: while the call for category
\* cat does not return the handler is inside it.  What the handler has done
\* by then, for a user turn with text.
on_message_added_waiting(h, live, st, cat) ==
  LET copy == live
      a1 == add_context_user_query(h, "preferences", Query(copy, live),
                                   PREF_HEADER, live,
                                   TRUE, Retrieved(st, "preferences"))
  IN IF cat = "preferences"
     THEN [self |-> h, live |-> live,
           calls |-> <<RetrieveCall(h, "preferences", Query(copy, live), TRUE, <<>>)>>]
     ELSE [self |-> h, live |-> a1.live,
           calls |-> <<a1.call,
                       RetrieveCall(h, "issues", Query(copy, a1.live), TRUE, <<>>)>>]

\* the runtime fires MessageAddedEvent and the retrieval for cat never
\* returns: the handler, and with it the runtime's dispatch, stays there
MessageAddedWaits(cat) ==
  /\ pc = "added"
  /\ messages # <<>>
  /\ Augments(Last(messages).role)
  /\ Last(messages).content # <<>>
  /\ Last(messages).content[1].hasText
  /\ LET r == on_message_added_waiting(hook, messages, store, cat)
     IN /\ messages' = r.live
        /\ hook' = r.self
        /\ calls' = r.calls
  /\ outcome' = "waiting"
  /\ pc' = "blocked"
  /\ handler' = "on_message_added"
  /\ entry' = [messages |-> messages, system_prompt |-> system_prompt]
  /\ UNCHANGED <<store, system_prompt, saved, added, ctor, appended, request,
                 clock, peer>>

\* one agent, records in both namespaces
InitOne ==
  /\ ctor = CtorArgs("mem", "actor", "session", NoneArg)
  /\ hook = Construct(ctor)
  /\ store = [preferences |-> 1, issues |-> 1]
  /\ messages = <<>>
  /\ InitRest

NextWaits ==
  \/ Next
  \/ \E cat \in {"preferences", "issues"} : MessageAddedWaits(cat)

\* the runtime dispatches every event it has, and a handler runs on until it
\* returns or raises, unless a call it is in does not return
SpecWaits == InitOne /\ [][NextWaits]_vars /\ WF_vars(NextWaits)

(* ------------------------ the caller retries -------------------------- *)
\* messages of every kind of role, with text, without text and with no
\* content entry at all
RetryMessages ==
  { Message("user", <<TextEntry(TurnText(1))>>),
    Message("assistant", <<TextEntry(TurnText(4))>>),
    Message("system", <<TextEntry(TurnText(1))>>),
    Message("system", <<OtherEntry>>),
    Message("system", <<>>) }

\* the caller sees on_message_added raise and invokes it again for the same
\* event, the store now being healthy: the handler runs as it always does,
\* on the messages as the failed invocation left them.  entry stays the
\* agent state at the first invocation and calls gathers both invocations'
\* calls.
RetryMessageAdded ==
  /\ pc = "failed"
  /\ handler = "on_message_added"
  /\ LET r == on_message_added(hook, messages, store, NoFaults)
     IN /\ messages' = r.live
        /\ hook' = r.self
        /\ calls' = calls \o r.calls
        /\ outcome' = r.outcome
        /\ saved' = saved \o r.done
        /\ pc' = IF r.outcome = "raised" THEN "failed" ELSE "idle"
  /\ handler' = "on_message_added_retry"
  /\ UNCHANGED <<store, system_prompt, added, ctor, appended, entry, request,
                 clock, peer>>

InitRetry ==
  /\ ctor = CtorArgs("mem", "actor", "session", NoneArg)
  /\ hook = Construct(ctor)
  /\ store \in Stores
  /\ messages = <<>>
  /\ InitRest

NextRetry ==
  \/ \E out \in TurnOutcomes : AgentInitialized(out)
  \/ \E m \in RetryMessages : AppendMessage(m)
  \/ \E f \in Faults : MessageAdded(f)
  \/ RetryMessageAdded

SpecRetry == InitRetry /\ [][NextRetry]_vars

(* --------------------------- setup_memory ------------------------------ *)
\* the namespaces of the strategies create_support_memory configures, for
\* one actor and session: "/preferences/{actorId}",
\* "/issues/{actorId}/products" and "/summaries/{actorId}/{sessionId}"
StrategyNamespaces(actor_id, session_id) ==
  { <<"/", "preferences", "/", actor_id>>,
    <<"/", "issues", "/", actor_id, "/", "products">>,
    <<"/", "summaries", "/", actor_id, "/", session_id>> }

(* ===================== properties of the handlers ====================== *)
\* the message the last handler found at the end of the conversation
EntryLast == Last(entry.messages)

RanMessageAdded == handler = "on_message_added" /\ entry.messages # <<>>
RanInitialized == handler = "on_agent_initialized"

\* the first content entry carries text (what line 94 tests)
TextFirst(m) == m.content # <<>> /\ m.content[1].hasText
\* some content entry carries text
TextSome(m) == \E i \in 1..Len(m.content) : m.content[i].hasText
\* the text of the first text-carrying entry
TextOf(m) ==
  LET i == CHOOSE j \in 1..Len(m.content) :
             m.content[j].hasText /\ \A l \in 1..(j - 1) : ~m.content[l].hasText
  IN m.content[i].text

UserTextTurn == RanMessageAdded /\ EntryLast.role = "user" /\ TextFirst(EntryLast)

CallsWhere(P(_)) == SelectSeq(calls, P)
IsSave(c) == c.op = "save_conversation"
IsRetrieve(c) == c.op = "retrieve_memories"
IsPref(c) == IsRetrieve(c) /\ c.cat = "preferences"
IsIssues(c) == IsRetrieve(c) /\ c.cat = "issues"
Raised(c) == c.raised
SaveCalls == CallsWhere(IsSave)
SomeCall(P(_)) == \E i \in 1..Len(calls) : P(calls[i])
SaveRaised(c) == IsSave(c) /\ c.raised
RetrieveRaised(c) == IsRetrieve(c) /\ c.raised
PrefRaised(c) == IsPref(c) /\ c.raised
PrefReturned(c) == IsPref(c) /\ ~c.raised
IssuesReturned(c) == IsIssues(c) /\ ~c.raised
ResultOf(P(_)) == calls[CHOOSE i \in 1..Len(calls) : P(calls[i])].result

\* the text of the newest live message's first entry, and what the handler
\* added to it
LiveText == Last(messages).content[1].text
Appended == SubSeq(LiveText, Len(EntryLast.content[1].text) + 1, Len(LiveText))
Has(text, tok) == \E i \in 1..Len(text) : text[i] = tok

\* C1: when save_conversation raises inside on_message_added, the handler
\* raises to its caller.
C1_SaveFailurePropagates ==
  (RanMessageAdded /\ SomeCall(SaveRaised)) => outcome = "raised"

W_C1_SaveRaised ==
  UserTextTurn /\ Len(calls) = 3 /\ SomeCall(SaveRaised) /\ outcome = "raised"

\* C2: when get_last_k_turns raises, on_agent_initialized returns normally
\* and leaves the agent's messages and system prompt as they were.
C2_InitFailureAbsorbed ==
  (RanInitialized /\ SomeCall(Raised)) =>
     /\ outcome = "returned"
     /\ messages = entry.messages
     /\ system_prompt = entry.system_prompt

W_C2_InitFailed ==
  /\ RanInitialized /\ SomeCall(Raised)
  /\ entry.messages = <<PriorMessage>> /\ outcome = "returned"

\* C3: when retrieve_memories raises for a namespace during a text-bearing
\* user turn and save_conversation does not fail, on_message_added returns
\* normally.
C3_RetrievalFailureAbsorbed ==
  (UserTextTurn /\ SomeCall(RetrieveRaised) /\ ~SomeCall(SaveRaised))
     => outcome = "returned"

\* C4: when retrieve_memories raises for one namespace during a text-bearing
\* user turn, save_conversation is still called exactly once.
C4_SaveDespiteRetrievalFailure ==
  (UserTextTurn /\ SomeCall(RetrieveRaised)) => Len(SaveCalls) = 1

\* C5: when retrieve_memories raises for the preferences namespace, the
\* issues namespace is still queried in the same invocation and its records
\* are appended to the turn.
C5_IssuesQueriedAfterPrefFailure ==
  (UserTextTurn /\ SomeCall(PrefRaised)) =>
     /\ SomeCall(IsIssues)
     /\ (SomeCall(IssuesReturned) /\ ResultOf(IssuesReturned) # <<>>)
           => Has(Appended, ISSUE_HEADER)

\* C6: for a user turn, the pair handed to save_conversation carries the
\* turn's text as it was when the handler was entered, not the text with the
\* memory blocks appended.
C6_SavesOriginalText ==
  UserTextTurn =>
    \A i \in 1..Len(calls) :
       IsSave(calls[i]) =>
         calls[i].args.messages = << <<EntryLast.content[1].text, "user">> >>

W_C6_AugmentedButSavedOriginal ==
  /\ UserTextTurn /\ Len(SaveCalls) = 1
  /\ Has(Appended, PREF_HEADER) /\ Has(Appended, ISSUE_HEADER)

\* what C7 requires of the handler's calls for a turn with text t
SavedExactly(t) ==
  /\ Len(SaveCalls) = 1
  /\ SaveCalls[1].args.memory_id = hook.memory_id
  /\ SaveCalls[1].args.actor_id = hook.actor_id
  /\ SaveCalls[1].args.session_id = hook.session_id
  /\ SaveCalls[1].args.messages = << <<t, EntryLast.role>> >>

\* C7 as stated: every user or assistant turn that has a text field in some
\* content entry is saved exactly once, with the hook's ids, while no store
\* call fails.
C7_EveryTextTurnSaved ==
  (/\ RanMessageAdded /\ EntryLast.role \in {"user", "assistant"}
   /\ TextSome(EntryLast) /\ ~SomeCall(Raised))
     => SavedExactly(TextOf(EntryLast))

\* C7 (amended): every user or assistant turn whose FIRST content entry has a
\* text field is saved exactly once, with the hook's memory id, actor id and
\* session id and the one pair (text of that first entry, role), while no
\* store call fails.
C7_FirstEntryTextTurnSaved ==
  (/\ RanMessageAdded /\ EntryLast.role \in {"user", "assistant"}
   /\ TextFirst(EntryLast) /\ ~SomeCall(Raised))
     => SavedExactly(EntryLast.content[1].text)

W_C7_AssistantTurnSaved ==
  /\ RanMessageAdded /\ EntryLast.role = "assistant" /\ TextFirst(EntryLast)
  /\ Len(calls) = 1 /\ ~SomeCall(Raised) /\ saved # <<>>

\* the reference block: header, a blank line, the records' texts joined by
\* newlines; empty for no records
RECURSIVE JoinLines(_)
JoinLines(records) ==
  IF records = <<>> THEN <<>>
  ELSE IF Len(records) = 1 THEN records[1].text
  ELSE records[1].text \o <<NL>> \o JoinLines(Tail(records))

formatMemoryBlock(records, header) ==
  IF records = <<>> THEN <<>> ELSE <<header>> \o NLNL \o JoinLines(records)

\* a block as it sits in the turn text: set off by a blank line on each side
BlockInTurn(records, header) ==
  IF records = <<>> THEN <<>>
  ELSE NLNL \o formatMemoryBlock(records, header) \o NLNL

\* C8: for a user turn, what is appended for each namespace that returned
\* n >= 1 records is the reference block (header once, blank line, each
\* record once, newline-joined), for every n up to top_k.
C8_AppendedIsReferenceBlock ==
  (UserTextTurn /\ SomeCall(PrefReturned) /\ SomeCall(IssuesReturned)) =>
     Appended = BlockInTurn(ResultOf(PrefReturned), PREF_HEADER)
                \o BlockInTurn(ResultOf(IssuesReturned), ISSUE_HEADER)

\* C9: a namespace whose retrieval returns no records adds nothing to the
\* turn (no header, no blank lines); when both return none the conversation
\* is exactly as it was.
C9_EmptyRetrievalAddsNothing ==
  UserTextTurn =>
    /\ (SomeCall(PrefReturned) /\ ResultOf(PrefReturned) = <<>>) =>
          /\ ~Has(Appended, PREF_HEADER)
          /\ Appended = <<>> \/ SubSeq(Appended, 1, 3) = NLNL \o <<ISSUE_HEADER>>
    /\ (SomeCall(IssuesReturned) /\ ResultOf(IssuesReturned) = <<>>) =>
          /\ ~Has(Appended, ISSUE_HEADER)
          /\ \/ Appended = <<>>
             \/ /\ ResultOf(PrefReturned) # <<>>
                /\ SubSeq(Appended, Len(Appended) - 2, Len(Appended))
                     = Last(ResultOf(PrefReturned)).text \o NLNL
    /\ (/\ SomeCall(PrefReturned) /\ ResultOf(PrefReturned) = <<>>
        /\ SomeCall(IssuesReturned) /\ ResultOf(IssuesReturned) = <<>>)
          => messages = entry.messages

W_C9_BothEmpty ==
  /\ UserTextTurn /\ outcome = "returned"
  /\ SomeCall(PrefReturned) /\ ResultOf(PrefReturned) = <<>>
  /\ SomeCall(IssuesReturned) /\ ResultOf(IssuesReturned) = <<>>

\* C10: when the newest turn carries no text field (no content entry has a
\* text key, or the content sequence is empty), on_message_added returns
\* without raising, calls nothing on the store and leaves the messages
\* unchanged.
C10_NoTextTurnIgnored ==
  (RanMessageAdded /\ ~TextSome(EntryLast)) =>
     /\ outcome = "returned"
     /\ calls = <<>>
     /\ messages = entry.messages

\* what get_last_k_turns returned to the last on_agent_initialized
Loaded == calls[1].result

\* the stored messages of all turns, in the order the store returned them
RECURSIVE Flatten(_)
Flatten(turns) ==
  IF turns = <<>> THEN <<>> ELSE Head(turns) \o Flatten(Tail(turns))

\* get_last_k_turns returned a non-empty list of well-formed turns
LoadedOk ==
  RanInitialized /\ ~calls[1].raised /\ Loaded # <<>> /\ WellFormed(Loaded)

\* C11: after on_agent_initialized with a successful non-empty result the
\* history is exactly the loaded messages, flattened in store order, one
\* message per stored message with the same text; what the agent held before
\* is gone.
C11_HistoryIsLoadedTurns ==
  LoadedOk =>
    /\ Len(messages) = Len(Flatten(Loaded))
    /\ \A i \in 1..Len(messages) :
         messages[i].content = <<[hasText |-> TRUE, text |-> Flatten(Loaded)[i].text]>>

W_C11_PriorDiscarded ==
  LoadedOk /\ entry.messages = <<PriorMessage>> /\ Len(messages) = 4

\* C12: on_agent_initialized is all-or-nothing: the guidance is appended to
\* the system prompt exactly when the history is replaced, which happens only
\* for a successful, non-empty, well-formed result; otherwise neither changes.
C12_InitAllOrNothing ==
  RanInitialized =>
    /\ (system_prompt = entry.system_prompt \o <<GUIDANCE>>) <=> LoadedOk
    /\ LoadedOk => Len(messages) = Len(Flatten(Loaded))
    /\ ~LoadedOk => (system_prompt = entry.system_prompt /\ messages = entry.messages)

W_C12_MalformedLeftAlone ==
  /\ RanInitialized /\ ~calls[1].raised /\ ~WellFormed(Loaded)
  /\ entry.messages = <<PriorMessage>> /\ messages = entry.messages
  /\ system_prompt = entry.system_prompt

\* prefix + "/" + category + "/" + actor of the constructor's arguments,
\* None counting as the empty prefix
ExpectedNamespace(cat) ==
  (IF ctor.namespace_prefix.isNone THEN <<>> ELSE ctor.namespace_prefix.s)
    \o <<"/", cat, "/", ctor.actor_id>>

\* C13: the namespaces queried are a function of (prefix, category, actor):
\* the first query uses prefix/preferences/actor, the second
\* prefix/issues/actor, None being the empty prefix.
C13_NamespacesFromConfig ==
  UserTextTurn =>
    /\ Len(calls) >= 1 =>
         (IsRetrieve(calls[1])
            /\ calls[1].args.namespace = ExpectedNamespace("preferences"))
    /\ Len(calls) >= 2 =>
         (IsRetrieve(calls[2])
            /\ calls[2].args.namespace = ExpectedNamespace("issues"))

W_C13_PrefixedNamespaces ==
  /\ UserTextTurn /\ Len(calls) = 3
  /\ ctor.namespace_prefix = StrArg(<<"support">>) /\ ctor.actor_id = "actor2"

\* a turn on_message_added persists: role user or assistant, text in the
\* first content entry
Saveable(m) == m.role \in {"user", "assistant"} /\ TextFirst(m)

\* the (text, role) pairs of the saveable messages of a sequence, in order
RECURSIVE PairsOf(_)
PairsOf(ms) ==
  IF ms = <<>> THEN <<>>
  ELSE (IF Saveable(Head(ms))
        THEN << <<Head(ms).content[1].text, Head(ms).role>> >> ELSE <<>>)
       \o PairsOf(Tail(ms))

\* the appended messages whose event has been handled
Handled ==
  IF pc = "added" THEN SubSeq(appended, 1, Len(appended) - 1) ELSE appended

SavedPairs == [i \in 1..Len(saved) |-> saved[i].args.messages[1]]

IsHeader(tok) == tok = PREF_HEADER \/ tok = ISSUE_HEADER
IsPrefRecord(tok) == tok[1] = "rec" /\ tok[2] < 10

\* C15: preferences are retrieved before issues, and when both return
\* records the preferences block comes before the issues block in the turn
\* text, each block preceded by a blank line.
C15_PreferencesBeforeIssues ==
  UserTextTurn =>
    /\ Len(calls) >= 1 => IsPref(calls[1])
    /\ \A i \in 1..Len(calls) :
         IsIssues(calls[i]) => \E j \in 1..(i - 1) : IsPref(calls[j])
    /\ (/\ SomeCall(PrefReturned) /\ ResultOf(PrefReturned) # <<>>
        /\ SomeCall(IssuesReturned) /\ ResultOf(IssuesReturned) # <<>>) =>
         /\ Has(Appended, PREF_HEADER) /\ Has(Appended, ISSUE_HEADER)
         /\ \A i, j \in 1..Len(Appended) :
              ((Appended[i] = PREF_HEADER \/ IsPrefRecord(Appended[i]))
                 /\ Appended[j] = ISSUE_HEADER) => i < j
         /\ \A i \in 1..Len(Appended) :
              IsHeader(Appended[i]) =>
                (i > 2 /\ Appended[i - 1] = NL /\ Appended[i - 2] = NL)

W_C15_BothBlocks ==
  /\ UserTextTurn /\ outcome = "returned"
  /\ SomeCall(PrefReturned) /\ Len(ResultOf(PrefReturned)) = 2
  /\ SomeCall(IssuesReturned) /\ Len(ResultOf(IssuesReturned)) = 2

\* C16: every retrieve_memories call of a user turn carries the hook's
\* memory id, top_k = 3 and the turn's original text as query; the issues
\* query holds no preferences block appended earlier in the invocation.
C16_RetrievalArguments ==
  UserTextTurn =>
    \A i \in 1..Len(calls) :
       IsRetrieve(calls[i]) =>
         /\ calls[i].args.memory_id = hook.memory_id
         /\ calls[i].args.n = 3
         /\ calls[i].args.query = EntryLast.content[1].text
         /\ ~Has(calls[i].args.query, PREF_HEADER)

W_C16_IssuesQueriedAfterPrefBlock ==
  UserTextTurn /\ Has(Appended, PREF_HEADER) /\ SomeCall(IsIssues)

\* the Turn role a stored role value stands for
TurnRole(r) ==
  IF r \in {"USER", "user"} THEN "user"
  ELSE IF r \in {"ASSISTANT", "assistant"} THEN "assistant"
  ELSE "other"

\* C17: formatting the loaded turns maps a stored role of assistant to an
\* assistant message and of user to a user message, and every other role
\* value to user.
C17_RoleMappingIdentity ==
  LoadedOk =>
    \A i \in 1..Len(messages) :
       messages[i].role =
         (IF TurnRole(Flatten(Loaded)[i].role) = "assistant"
          THEN "assistant" ELSE "user")

AssistantTextTurn ==
  RanMessageAdded /\ EntryLast.role = "assistant" /\ TextFirst(EntryLast)

HasBlock(m) ==
  \E e \in 1..Len(m.content) :
     Has(m.content[e].text, PREF_HEADER) \/ Has(m.content[e].text, ISSUE_HEADER)

\* s is a prefix of t
IsPrefix(s, t) == Len(s) <= Len(t) /\ SubSeq(t, 1, Len(s)) = s

\* C19 as stated: once on_message_added has returned, the appended blocks
\* are gone from the history that later events see.
C19_ContextGoneAfterDispatch ==
  RanMessageAdded =>
    \A i \in 1..(Len(entry.messages) - 1) : ~HasBlock(entry.messages[i])

\* C19 (amended): the blocks appended to a user turn stay in the agent's
\* message history: no later step removes a block from a message that
\* carries one, so later events see the turn with its blocks.
C19_ContextStaysInHistory ==
  [][\A i \in 1..Len(messages) :
       HasBlock(messages[i]) =>
         /\ i <= Len(messages')
         /\ HasBlock(messages'[i])
         /\ Len(messages'[i].content) = Len(messages[i].content)
         /\ \A e \in 1..Len(messages[i].content) :
              IsPrefix(messages[i].content[e].text, messages'[i].content[e].text)]_vars

W_C19_LaterEventSeesBlocks ==
  /\ RanMessageAdded /\ Len(entry.messages) >= 2
  /\ HasBlock(entry.messages[1]) /\ HasBlock(messages[1])

\* C20: across every sequence of handler invocations, returning or raising,
\* the hook holds exactly the four configuration fields with the values it
\* was constructed with.
C20_HookConfigurationFixed ==
  hook = [memory_id |-> ctor.memory_id,
          actor_id |-> ctor.actor_id,
          session_id |-> ctor.session_id,
          namespace_prefix |-> IF ctor.namespace_prefix.isNone
                               THEN <<>> ELSE ctor.namespace_prefix.s]

W_C20_AfterFailingAndReturningEvents ==
  /\ RanMessageAdded /\ outcome = "raised" /\ added = 2 /\ saved # <<>>
  /\ ctor.namespace_prefix = StrArg(<<"support">>)

\* the (actor, session) pair a hook is bound to
PairOf(h) == <<h.actor_id, h.session_id>>

\* two requests are being served by hooks bound to different pairs
DifferentSessions == peer # NoPeer /\ PairOf(hook) # PairOf(peer.hook)

IsGetTurns(c) == c.op = "get_last_k_turns"
UnderPair(c, p) == <<c.args.actor_id, c.args.session_id>> = p

\* C21: with two hooks bound to different (actor, session) pairs on one
\* store, under every interleaving of their events, every get_last_k_turns
\* and save_conversation call carries the calling hook's own actor id and
\* session id; what a hook loads holds no turn saved under the other's pair.
C21_CallsCarryOwnSession ==
  DifferentSessions =>
    /\ \A i \in 1..Len(calls) :
         (IsGetTurns(calls[i]) \/ IsSave(calls[i])) =>
           UnderPair(calls[i], PairOf(hook))
    /\ RanInitialized =>
         \A i \in 1..Len(Loaded) : \A j \in 1..Len(Loaded[i]) :
            /\ \E c \in 1..Len(saved) :
                 /\ UnderPair(saved[c], PairOf(hook))
                 /\ saved[c].args.messages[1][1] = Loaded[i][j].text
            /\ ~\E c \in 1..Len(saved) :
                 /\ UnderPair(saved[c], PairOf(peer.hook))
                 /\ saved[c].args.messages[1][1] = Loaded[i][j].text

W_C21_SameActorOtherSession ==
  /\ DifferentSessions /\ hook.actor_id = peer.hook.actor_id
  /\ RanInitialized /\ Loaded = <<>>
  /\ \E c \in 1..Len(saved) : UnderPair(saved[c], PairOf(peer.hook))

\* both requests being served had their session id made by the entrypoint
BothMadeSessionId ==
  peer # NoPeer /\ request.session_id = "" /\ peer.request.session_id = ""

\* C23: two invocations of the entrypoint that make their own session id
\* bind their hooks to different session ids, also when they are for the
\* same actor and arrive within the same clock second (stated for two
\* invocations of one actor, the case the sentence singles out).
C23_SessionIdsNeverReused ==
  (BothMadeSessionId /\ hook.actor_id = peer.hook.actor_id) =>
     hook.session_id # peer.hook.session_id

\* both requests being served came through the identity agent
BothIdentity ==
  peer # NoPeer /\ request.kind = "identity" /\ peer.request.kind = "identity"

\* C24: in the identity agent, requests of two different authenticated
\* users are bound to different actor ids, so no retrieval or save of one
\* user's hook runs under the other user's actor.
C24_ActorIsAuthenticatedUser ==
  (BothIdentity /\ request.user # peer.request.user) =>
     /\ hook.actor_id # peer.hook.actor_id
     /\ \A i \in 1..Len(calls) :
          IsSave(calls[i]) => calls[i].args.actor_id # peer.hook.actor_id

\* C22: when a retrieve_memories call never returns, on_message_added still
\* completes: every message-added event the runtime dispatches is eventually
\* handled to the end (the handler returns or raises).
C22_HandlerCompletesDespiteHungRetrieval ==
  (pc = "added") ~> (pc \in {"idle", "failed"})

\* C25: whenever on_message_added raises, the agent's live messages are as
\* they were when the handler was entered: no block appended before the
\* failure stays in the turn text.
C25_RaiseLeavesMessagesUnchanged ==
  (RanMessageAdded /\ outcome = "raised") => messages = entry.messages

\* on_message_added was invoked again for a user turn with text whose first
\* invocation failed at save_conversation (its third call)
RetriedAfterSaveFailure ==
  /\ handler = "on_message_added_retry"
  /\ entry.messages # <<>> /\ EntryLast.role = "user" /\ TextFirst(EntryLast)
  /\ Len(calls) >= 3 /\ SaveRaised(calls[3])

\* what one invocation with a healthy store does with the turn as it was
SingleCall == on_message_added(hook, entry.messages, store, NoFaults)

\* C26: retrying is safe: after on_message_added failed at save_conversation
\* for a user turn and was invoked again with the store healthy and
\* returning the same records, the retry has saved the same original text and
\* used the same retrieval queries as a single successful call, and the turn
\* text is that of a single successful call (each block once).
C26_RetryEqualsSingleCall ==
  RetriedAfterSaveFailure =>
    /\ SubSeq(calls, 4, Len(calls)) = SingleCall.calls
    /\ messages = SingleCall.live

\* C27: with the default empty prefix, each namespace the hook queries for
\* an actor is one of the namespaces the strategies configured by
\* create_support_memory write for that actor.
C27_QueriedNamespacesAreStrategyNamespaces ==
  (UserTextTurn /\ hook.namespace_prefix = <<>>) =>
    \A i \in 1..Len(calls) :
       IsRetrieve(calls[i]) =>
         calls[i].args.namespace \in StrategyNamespaces(hook.actor_id, hook.session_id)

\* C28: on_message_added never changes the number of messages, the role of
\* any message, or any message other than the most recent one; all it can
\* change is the text of the first content entry of the most recent message
\* when that is a user message, and only by appending to it.
C28_MessageAddedFrame ==
  RanMessageAdded =>
    /\ Len(messages) = Len(entry.messages)
    /\ \A i \in 1..Len(messages) : messages[i].role = entry.messages[i].role
    /\ \A i \in 1..(Len(messages) - 1) : messages[i] = entry.messages[i]
    /\ Len(Last(messages).content) = Len(EntryLast.content)
    /\ \A e \in 2..Len(EntryLast.content) :
         Last(messages).content[e] = EntryLast.content[e]
    /\ EntryLast.content # <<>> =>
         /\ Last(messages).content[1].hasText = EntryLast.content[1].hasText
         /\ IsPrefix(EntryLast.content[1].text, Last(messages).content[1].text)
    /\ Last(messages) # EntryLast => EntryLast.role = "user"

W_C28_OnlyFirstEntryOfLastTurnGrew ==
  /\ RanMessageAdded /\ Len(messages) = 2
  /\ Len(EntryLast.content) = 2 /\ EntryLast.role = "user"
  /\ HasBlock(messages[1]) /\ HasBlock(messages[2])
  /\ messages # entry.messages

\* C29: for a most recent turn whose role is neither user nor assistant,
\* on_message_added calls nothing on the store (no retrieval, no save),
\* changes nothing and returns normally, with or without text in the turn.
C29_OtherRolesAreIgnored ==
  (RanMessageAdded /\ EntryLast.role \notin {"user", "assistant"}) =>
     /\ calls = <<>>
     /\ outcome = "returned"
     /\ messages = entry.messages
     /\ system_prompt = entry.system_prompt
     /\ hook = Construct(ctor)

W_C29_SystemTurnWithoutContent ==
  /\ RanMessageAdded /\ EntryLast.role = "system" /\ EntryLast.content = <<>>
  /\ store.preferences > 0 /\ outcome = "returned" /\ Len(saved) = 1

\* the messages on_agent_initialized put into the history
Preloaded == SubSeq(messages, 1, Len(messages) - added)

\* C30: on_agent_initialized only reads from the store: its one call is
\* get_last_k_turns with k = 5 and the hook's memory id, actor id and session
\* id, and nothing is saved.  Turns preloaded into the history are never
\* saved again: every message-added event saves at most the turn just added.
C30_InitReadsAndPreloadedNotSavedAgain ==
  /\ RanInitialized =>
       /\ Len(calls) = 1 /\ IsGetTurns(calls[1])
       /\ calls[1].args.n = 5
       /\ calls[1].args.memory_id = hook.memory_id
       /\ calls[1].args.actor_id = hook.actor_id
       /\ calls[1].args.session_id = hook.session_id
       /\ saved = <<>>
  /\ RanMessageAdded =>
       /\ Len(SaveCalls) <= 1
       /\ \A i \in 1..Len(SaveCalls) :
            /\ EntryLast.content # <<>>
            /\ SaveCalls[i].args.messages =
                 << <<EntryLast.content[1].text, EntryLast.role>> >>
  /\ Len(saved) <= added
  /\ \A c \in 1..Len(saved) : \A i \in 1..Len(Preloaded) :
       saved[c].args.messages[1][1] # Preloaded[i].content[1].text

W_C30_SavedAfterPreload ==
  /\ RanMessageAdded /\ Len(Preloaded) = 4 /\ added = 2 /\ Len(saved) = 2
  /\ outcome = "returned"

====
